---- MODULE Spec2Model ----
(***************************************************************************)
(* Model of the authentication core of recommend-site-app-server:          *)
(* AuthService (src/src/auth/auth.service.ts) over its collaborators, the  *)
(* credential store (UsersService), the refresh-token store                *)
(* (RefreshTokenRepository), the token issuer (JwtService) and the visitor *)
(* counter (VisitorService).                                               *)
(*                                                                         *)
(* Every await of a handler is one step of a request process: the step is  *)
(* the effect of the awaited store call followed by the synchronous code   *)
(* up to the next await.  Steps of different requests interleave freely,   *)
(* as they do on the event loop.  The clock is in milliseconds (Date); a   *)
(* JWT carries whole seconds (iat, exp).  Days are 24 h long (a server     *)
(* clock without daylight-saving shifts).                                  *)
(***************************************************************************)
EXTENDS Integers, Sequences, FiniteSets, TLC

\* ------------------------------------------------------------------ bounds
\* Rows the refresh_token table may hold.
MaxTokens == 3
\* Number of times the clock advances.
MaxTicks == 2

\* Concurrent request handlers.
Procs == {1, 2}

\* --------------------------------------------------------------- constants
\* expiresIn: '7d', in the seconds of a JWT NumericDate.
RefreshTtlSec == 7 * 24 * 60 * 60
\* expiresIn: '15m'.
AccessTtlSec == 15 * 60
\* expiresAt.setDate(expiresAt.getDate() + 7), in the milliseconds of a Date.
SevenDaysMs == 7 * 24 * 60 * 60 * 1000
\* expiresIn: '-1s' of the e2e test's expired token.
ExpiredTtlSec == 0 - 1

\* The amounts by which the clock advances between two steps: the 1001 ms
\* that the e2e test waits between login and refresh (into the next second,
\* and off the whole second), and the refresh token's lifetime.
TickSteps == {1001, SevenDaysMs}
\* The clock stops advancing after two refresh-token lifetimes.
Horizon == 2 * SevenDaysMs

\* JWT_SECRET as configured, and a key that is not the configured one.
Secret == "JWT_SECRET"
OtherSecret == "forged"

\* ------------------------------------------------------------------- users
\* The emails that accounts are signed up with, and the one whose sessions
\* the token life cycle is followed for.
Accounts == {"a@x.com", "b@x.com"}
Emails == {"a@x.com"}

\* User.id and User.role of the account with a given email.
IdOf(e) == IF e = "a@x.com" THEN 1 ELSE 2
RoleOf(e) == IF e = "a@x.com" THEN "admin" ELSE "user"

\* payload = { id: user.id, email: user.email, role: user.role }
Payload(e) == [id |-> IdOf(e), email |-> e, role |-> RoleOf(e)]

\* -------------------------------------------------------------- the issuer
\* A token that is no JWT: 'invalid_refresh_token', and the absent token of
\* an empty request body.
Garbage == [fmt |-> "garbage", id |-> 0, email |-> "", role |-> "",
            iat |-> 0, exp |-> 0, key |-> ""]
Missing == [Garbage EXCEPT !.fmt = "missing"]
NoToken == [Garbage EXCEPT !.fmt = "none"]

\* jwtService.sign(payload, { expiresIn }): the payload, iat = the clock's
\* whole second, exp = iat + expiresIn, signed with the key.
Sign(payload, ttlSec, t, key) ==
    [fmt |-> "jwt", id |-> payload.id, email |-> payload.email,
     role |-> payload.role, iat |-> t \div 1000,
     exp |-> (t \div 1000) + ttlSec, key |-> key]

\* The expiry test of jwtService.verify (jsonwebtoken's verify: the token is
\* expired when clockTimestamp >= payload.exp, clockTimestamp being
\* Math.floor(Date.now() / 1000)).
JwtExpiredLate(tok, t) == (t \div 1000) > tok.exp
JwtExpired(tok, t) == (t \div 1000) >= tok.exp

\* jwtService.verify(token, { secret }): "payload" when it returns the
\* payload, else the error it throws: for a string that is no JWT or a
\* signature made with another key, and for an expired token.
JwtVerify(tok, key, t) ==
    IF tok.fmt # "jwt" \/ tok.key # key THEN "JsonWebTokenError"
    ELSE IF JwtExpired(tok, t) THEN "TokenExpiredError"
    ELSE "payload"

\* The claims of the payload that verify returns, as they were given to sign
\* (verify adds iat and exp to them).
JwtDecoded(tok) == [id |-> tok.id, email |-> tok.email, role |-> tok.role]

\* ------------------------------------------------- the refresh-token store
\* A row holds id, token, userEmail, expiresAt and revoked (createdAt, which
\* no operation reads, is left out).  NoRecord is the lookup's "nothing".
NoRecord == [id |-> 0, token |-> NoToken, userEmail |-> "", expiresAt |-> 0,
             revoked |-> FALSE]

\* findValidToken(token): the record with exactly this token string, or
\* nothing; neither expiry nor the revoked flag is looked at.
FindValidToken(tbl, tok) ==
    IF \E i \in 1..Len(tbl) : tbl[i].token = tok
    THEN tbl[CHOOSE i \in 1..Len(tbl) : tbl[i].token = tok]
    ELSE NoRecord

\* revokeToken(id): sets revoked = true on that record, and nothing else.
RevokeTokenNoop(tbl, id) == tbl
RevokeTokenOfUser(tbl, id) ==
    [i \in 1..Len(tbl) |->
        IF \E j \in 1..Len(tbl) :
                tbl[j].id = id /\ tbl[j].userEmail = tbl[i].userEmail
        THEN [tbl[i] EXCEPT !.revoked = TRUE] ELSE tbl[i]]
RevokeTokenToggle(tbl, id) ==
    [i \in 1..Len(tbl) |->
        IF tbl[i].id = id THEN [tbl[i] EXCEPT !.revoked = ~@] ELSE tbl[i]]
RevokeToken(tbl, id) ==
    [i \in 1..Len(tbl) |->
        IF tbl[i].id = id THEN [tbl[i] EXCEPT !.revoked = TRUE] ELSE tbl[i]]

\* The token column is unique: a second row with the same string is refused.
CanSaveAlways(tbl, tok) == TRUE
CanSave(tbl, tok) == \A i \in 1..Len(tbl) : tbl[i].token # tok

\* The fault of a saveToken that does not insert: the string is held by a
\* row already, or the store fails otherwise.
SaveFault(tbl, tok) == IF CanSave(tbl, tok) THEN "saveError" ELSE "duplicate"

\* saveToken(email, token, expiresAt): one new, non-revoked row.
SaveToken(tbl, email, tok, exp) ==
    Append(tbl, [id |-> Len(tbl) + 1, token |-> tok, userEmail |-> email,
                 expiresAt |-> exp, revoked |-> FALSE])

\* ---------------------------------------------------- the credential store
\* The passwords that are tried, and the one the first account has.
Passwords == {"correct", "wrong", "other"}
FirstPassword == "correct"

\* bcrypt.hashSync(password, 10) and bcrypt.compare(password, hash): the
\* hash is not the password, and only the password it was made from matches.
Hash(pw) == <<"bcrypt", pw>>
NoHash == <<>>
BcryptCompare(pw, h) == h = Hash(pw)

\* The emails that have a user, in a users table us (rows of email and
\* passwordHash, in insertion order).
Live(us) == {us[i].email : i \in DOMAIN us}

\* The passwordHash of the user that a lookup by email finds: that of the
\* first row with the email, NoHash when there is none.
HashOf(us, e) ==
    IF e \in Live(us)
    THEN us[CHOOSE i \in DOMAIN us :
                /\ us[i].email = e
                /\ \A j \in DOMAIN us : us[j].email = e => i <= j].passwordHash
    ELSE NoHash

\* signUpUser's check that the email already has a user.
EmailTakenNever(us, e) == FALSE
EmailTaken(us, e) == e \in Live(us)

\* getUserById(id): the user, nothing, or a failed lookup.
GetUserById(live, e, fail) ==
    IF fail THEN "StoreError" ELSE IF e \in live THEN "found" ELSE "nothing"

\* getUserByEmail(email): the user; NotFound for an email without a user; or
\* a failed lookup.
GetUserByEmail(live, e, fail) ==
    IF fail THEN "StoreError" ELSE IF e \in live THEN "found" ELSE "NotFound"

\* ------------------------------------------------------ the visitor counter
\* upsertVisitorCount(identifier): one atomic increment-or-insert of the
\* identifier's count.
UpsertVisitorCountReset(v, e) == [v EXCEPT ![e] = 1]
UpsertVisitorCount(v, e) == [v EXCEPT ![e] = @ + 1]

\* ------------------------------------------------------------------- state
VARIABLES
    now,      \* the clock, in milliseconds
    ticks,    \* how often the clock has advanced
    users,    \* the users table: a row of email and passwordHash per user
    tokens,   \* the refresh_token table, in insertion order
    visits,   \* visitor count per identifier
    proc,     \* per request handler: its position and the locals of its call
    resp,     \* the response the step just taken returned to its caller, if any
    handed,   \* the token pairs that responses have handed to callers
    spent     \* token strings a refreshToken call has succeeded with

vars == <<now, ticks, users, tokens, visits, proc, resp, handed, spent>>

\* A handler with no call under way.  Of a call under way it holds the
\* arguments (tok, user, pw), the locals (stored, newTok, expAt) and a record of
\* what the call has met and done so far: the token's row as the check saw it
\* (known, wasRevoked, wasExpired), whether a call had succeeded with the
\* token before (late), the clock when the new refresh token was signed
\* (rtAt), the faults of its collaborators (faults), and the rows it has
\* inserted (ins) and revoked (rev) and the visits it has counted (vis).
Idle ==
    [pc |-> "idle", op |-> "none", tok |-> NoToken, user |-> "", pw |-> "",
     stored |-> NoRecord, newTok |-> NoToken, expAt |-> 0, rtAt |-> 0,
     late |-> FALSE, known |-> FALSE, wasRevoked |-> FALSE,
     wasExpired |-> FALSE, faults |-> {}, ins |-> 0, rev |-> {}, vis |-> 0]

\* No response.
NoResp ==
    [call |-> Idle, by |-> 0, status |-> "none", access |-> NoToken,
     refresh |-> NoToken, who |-> "", valid |-> FALSE, again |-> FALSE,
     at |-> 0, msg |-> ""]

Init ==
    /\ now = 0
    /\ ticks = 0
    /\ users = <<[email |-> CHOOSE e \in Emails : TRUE,
                  passwordHash |-> Hash(FirstPassword)]>>
    /\ tokens = <<>>
    /\ visits = [e \in Emails |-> 0]
    /\ proc = [p \in Procs |-> Idle]
    /\ resp = NoResp
    /\ handed = {}
    /\ spent = {}

\* Requests under way, each of which may still insert a row.
InFlight == {q \in Procs : proc[q].pc # "idle"}

\* Handler p takes the next request: the handlers are interchangeable, and
\* the request goes to the first one that has no call under way.
Free(p) ==
    /\ proc[p].pc = "idle"
    /\ \A q \in Procs : q < p => proc[q].pc # "idle"

\* Room in the table for one more request (the bound of the model).
Room == Len(tokens) + Cardinality(InFlight) < MaxTokens

\* The response of handler p to the call r that ends in an error.
Thrown(p, r, status) ==
    [NoResp EXCEPT !.call = [r EXCEPT !.pc = "idle"], !.by = p,
                   !.status = status, !.at = now]

\* lines 63-69 and 103-106: the response of handler p to the call r that
\* returns: the access token signed now, and the new refresh token.
Returned(p, r) ==
    [NoResp EXCEPT !.call = [r EXCEPT !.pc = "idle"], !.by = p,
                   !.status = "ok", !.again = (r.tok \in spent), !.at = now,
                   !.access = Sign(Payload(r.user), AccessTtlSec, now, Secret),
                   !.refresh = r.newTok]

\* The token pair of a response, as its caller keeps it.
Pair(out) == [refresh |-> out.refresh, access |-> out.access]

\* lines 55-57 and 89-93: the call's new refresh token for user e and the
\* expiresAt of its row.
ExpiresAtShort(t) == t + RefreshTtlSec
ExpiresAtLate(t) == t + SevenDaysMs + 1000
ExpiresAt(t) == t + SevenDaysMs

Issue(r, e) ==
    [r EXCEPT !.user = e,
              !.newTok = Sign(Payload(e), RefreshTtlSec, now, Secret),
              !.expAt = ExpiresAt(now),
              !.rtAt = now]

\* lines 58 and 94-98: saveToken(user.email, refreshToken, expiresAt).
PersistInPlace(tbl, r) ==
    IF r.stored = NoRecord
    THEN SaveToken(tbl, r.user, r.newTok, r.expAt)
    ELSE [i \in 1..Len(tbl) |->
            IF tbl[i].id = r.stored.id
            THEN [tbl[i] EXCEPT !.token = r.newTok, !.expiresAt = r.expAt,
                                !.revoked = FALSE]
            ELSE tbl[i]]
Persist(tbl, r) == SaveToken(tbl, r.user, r.newTok, r.expAt)

\* ------------------------------------------------------------------- login
\* lines 42-53: the outcome of the re-fetch by id decides whether login goes on.
LoginRefetchNoNullCheck(o) == IF o = "StoreError" THEN "InternalError" ELSE "ok"
LoginRefetch(o) == IF o = "found" THEN "ok" ELSE "InternalError"

\* login(user), lines 37-57: the re-fetch by id, then the refresh token and
\* its expiresAt.
Login(p, u) ==
    /\ Free(p)
    /\ Room
    /\ \E fail \in BOOLEAN :
        LET o == GetUserById(Live(users), u, fail)
            r == [Idle EXCEPT !.op = "login", !.user = u,
                              !.faults = IF o = "found" THEN {} ELSE {o}]
        IN
        IF LoginRefetch(o) # "ok"
        THEN /\ resp' = Thrown(p, r, LoginRefetch(o))
             /\ UNCHANGED proc
        ELSE /\ proc' = [proc EXCEPT ![p] = [Issue(r, u) EXCEPT !.pc = "l_save"]]
             /\ resp' = NoResp
    /\ UNCHANGED <<now, ticks, users, tokens, visits, handed, spent>>

\* line 58: await saveToken(user.email, refreshToken, expiresAt); its
\* failure leaves login as the store's own error.
LoginSave(p) ==
    /\ proc[p].pc = "l_save"
    /\ \E fail \in BOOLEAN :
        LET r == proc[p] IN
        IF fail \/ ~CanSave(tokens, r.newTok)
        THEN /\ resp' = Thrown(p, [r EXCEPT !.faults = @ \cup {SaveFault(tokens, r.newTok)}],
                               "StoreError")
             /\ proc' = [proc EXCEPT ![p] = Idle]
             /\ UNCHANGED tokens
        ELSE /\ tokens' = Persist(tokens, r)
             /\ proc' = [proc EXCEPT ![p] =
                    [r EXCEPT !.pc = "l_visit", !.ins = @ + 1]]
             /\ resp' = NoResp
    /\ UNCHANGED <<now, ticks, users, visits, handed, spent>>

\* lines 60-69: await upsertVisitorCount(user.email), then the access
\* token and the response.
LoginVisit(p) ==
    /\ proc[p].pc = "l_visit"
    /\ \E fail \in BOOLEAN :
        LET r == proc[p] IN
        IF fail
        THEN /\ resp' = Thrown(p, [r EXCEPT !.faults = @ \cup {"visitorError"}],
                               "StoreError")
             /\ UNCHANGED <<visits, handed>>
        ELSE /\ visits' = UpsertVisitorCount(visits, r.user)
             /\ resp' = Returned(p, [r EXCEPT !.vis = @ + 1])
             /\ handed' = handed \cup {Pair(Returned(p, r))}
    /\ proc' = [proc EXCEPT ![p] = Idle]
    /\ UNCHANGED <<now, ticks, users, tokens, spent>>

\* ------------------------------------------------------------ refreshToken
\* The token strings a caller may present: one a response has handed out, a
\* string that was never issued, and no string at all.
Presentable == {h.refresh : h \in handed} \cup {Garbage, Missing}

\* line 75: !storedToken || new Date() > storedToken.expiresAt
RejectedNoExpiry(st, t) == st = NoRecord
RejectedAtExpiry(st, t) == st = NoRecord \/ t >= st.expiresAt
Rejected(st, t) == st = NoRecord \/ t > st.expiresAt

\* lines 107-113: an error with status 401 is thrown on, any other becomes
\* InternalServerErrorException.
RefreshCatchRethrow(err) == err
RefreshCatch(err) == IF err = "Unauthorized" THEN err ELSE "InternalError"

\* lines 74-77: await findValidToken(token), then the check.
Refresh(p, t) ==
    /\ Free(p)
    /\ Room
    /\ \E fail \in BOOLEAN :
        LET st == FindValidToken(tokens, t)
            r == [Idle EXCEPT !.op = "refresh", !.tok = t,
                              !.late = (t \in spent),
                              !.known = (st # NoRecord),
                              !.wasRevoked = st.revoked,
                              !.wasExpired = (st # NoRecord /\ now > st.expiresAt),
                              !.faults = IF fail THEN {"findError"} ELSE {}]
        IN
        IF fail
        THEN /\ resp' = Thrown(p, r, RefreshCatch("StoreError"))
             /\ UNCHANGED proc
        ELSE IF Rejected(st, now)
        THEN /\ resp' = Thrown(p, r, RefreshCatch("Unauthorized"))
             /\ UNCHANGED proc
        ELSE /\ proc' = [proc EXCEPT ![p] =
                    [r EXCEPT !.pc = "r_revoke", !.stored = st]]
             /\ resp' = NoResp
    /\ UNCHANGED <<now, ticks, users, tokens, visits, handed, spent>>

\* line 79: await revokeToken(storedToken.id)
RefreshRevoke(p) ==
    /\ proc[p].pc = "r_revoke"
    /\ \E fail \in BOOLEAN :
        LET r == proc[p] IN
        IF fail
        THEN /\ resp' = Thrown(p, [r EXCEPT !.faults = @ \cup {"revokeError"}],
                               RefreshCatch("StoreError"))
             /\ proc' = [proc EXCEPT ![p] = Idle]
             /\ UNCHANGED tokens
        ELSE /\ tokens' = RevokeToken(tokens, r.stored.id)
             /\ proc' = [proc EXCEPT ![p] =
                    [r EXCEPT !.pc = "r_user", !.rev = @ \cup {r.stored.id}]]
             /\ resp' = NoResp
    /\ UNCHANGED <<now, ticks, users, visits, handed, spent>>

\* lines 81-93: await getUserByEmail(storedToken.userEmail); then the
\* payload, the new refresh token and its expiresAt.
RefreshUser(p) ==
    /\ proc[p].pc = "r_user"
    /\ \E fail \in BOOLEAN :
        LET r == proc[p]
            o == GetUserByEmail(Live(users), r.stored.userEmail, fail)
        IN
        IF o # "found"
        THEN /\ resp' = Thrown(p, [r EXCEPT !.faults = @ \cup {o}],
                               RefreshCatch(o))
             /\ proc' = [proc EXCEPT ![p] = Idle]
        ELSE /\ proc' = [proc EXCEPT ![p] =
                    [Issue(r, r.stored.userEmail) EXCEPT !.pc = "r_save"]]
             /\ resp' = NoResp
    /\ UNCHANGED <<now, ticks, users, tokens, visits, handed, spent>>

\* lines 94-98: await saveToken(user.email, newRefreshToken, expiresAt)
RefreshSave(p) ==
    /\ proc[p].pc = "r_save"
    /\ \E fail \in BOOLEAN :
        LET r == proc[p] IN
        IF fail \/ ~CanSave(tokens, r.newTok)
        THEN /\ resp' = Thrown(p, [r EXCEPT !.faults = @ \cup {SaveFault(tokens, r.newTok)}],
                               RefreshCatch("StoreError"))
             /\ proc' = [proc EXCEPT ![p] = Idle]
             /\ UNCHANGED tokens
        ELSE /\ tokens' = Persist(tokens, r)
             /\ proc' = [proc EXCEPT ![p] =
                    [r EXCEPT !.pc = "r_visit", !.ins = @ + 1]]
             /\ resp' = NoResp
    /\ UNCHANGED <<now, ticks, users, visits, handed, spent>>

\* lines 100-106: await upsertVisitorCount(user.email), then the access
\* token and the response.
RefreshVisit(p) ==
    /\ proc[p].pc = "r_visit"
    /\ \E fail \in BOOLEAN :
        LET r == proc[p] IN
        IF fail
        THEN /\ resp' = Thrown(p, [r EXCEPT !.faults = @ \cup {"visitorError"}],
                               RefreshCatch("StoreError"))
             /\ UNCHANGED <<visits, handed, spent>>
        ELSE /\ visits' = UpsertVisitorCount(visits, r.user)
             /\ resp' = Returned(p, [r EXCEPT !.vis = @ + 1])
             /\ handed' = handed \cup {Pair(Returned(p, r))}
             /\ spent' = spent \cup {r.tok}
    /\ proc' = [proc EXCEPT ![p] = Idle]
    /\ UNCHANGED <<now, ticks, users, tokens>>

\* ------------------------------------------------------------ validateUser
\* lines 25-34: a lookup that throws, a lookup that finds nothing and a
\* password that does not match all end in Unauthorized('Invalid credentials').
ValidateUserNoCompare(o, matches) == IF o = "found" THEN "ok" ELSE "Unauthorized"
ValidateUserOutcome(o, matches) ==
    IF o = "found" /\ matches THEN "ok" ELSE "Unauthorized"

\* The message of the exception that validateUser throws (lines 27 and 32).
ValidateUserMessageLeaky(o, matches) ==
    IF o = "found" /\ matches THEN ""
    ELSE IF o = "NotFound" THEN "User not found" ELSE "Invalid credentials"
ValidateUserMessage(o, matches) ==
    IF o = "found" /\ matches THEN "" ELSE "Invalid credentials"

\* validateUser(email, password)
ValidateUser(e, pw) ==
    /\ \E fail \in BOOLEAN :
        LET o == GetUserByEmail(Live(users), e, fail)
            r == [Idle EXCEPT !.op = "validateUser", !.user = e, !.pw = pw,
                              !.faults = IF o = "found" THEN {} ELSE {o}]
            matches == o = "found" /\ BcryptCompare(pw, HashOf(users, e))
            status == ValidateUserOutcome(o, matches)
        IN
        resp' = [Thrown(0, r, status) EXCEPT
                    !.who = IF status = "ok" THEN e ELSE "",
                    !.msg = ValidateUserMessage(o, matches)]
    /\ UNCHANGED <<now, ticks, users, tokens, visits, proc, handed, spent>>

\* ----------------------------------------------------- validateAccessToken
\* lines 117-124: !!payload when verify returns, false when it throws.
ValidateNoCatch(o) == [status |-> o, valid |-> o = "payload"]
ValidateResultSession(o) ==
    [status |-> "ok",
     valid |-> o = "payload" /\ \A i \in 1..Len(tokens) : ~tokens[i].revoked]
ValidateResult(o) == [status |-> "ok", valid |-> o = "payload"]

\* validateAccessToken(token), lines 116-125: verify with the configured
\* secret.
ValidateAccessToken(tok) ==
    /\ LET v == ValidateResult(JwtVerify(tok, Secret, now)) IN
        resp' = [Thrown(0, [Idle EXCEPT !.op = "validate", !.tok = tok], v.status)
                    EXCEPT !.valid = v.valid]
    /\ UNCHANGED <<now, ticks, users, tokens, visits, proc, handed, spent>>

\* The bearer tokens that are tried: tokens of either lifetime, and the e2e
\* test's token that is expired when signed, for each account, signed at the
\* epoch or now, with the configured key or another; and strings that are
\* no JWT.
Bearers ==
    {Sign(Payload(e), ttl, t, k) :
        e \in Accounts, ttl \in {AccessTtlSec, RefreshTtlSec, ExpiredTtlSec},
        t \in {0, now}, k \in {Secret, OtherSecret}}
    \cup {Garbage, Missing}

\* --------------------------------------------------- accounts and the clock
\* removeAccount(email): the user is gone, NotFound when there is none; the
\* refresh_token rows that name the email stay (userEmail is a lookup key,
\* not a reference).
RemoveAccount(e) ==
    /\ LET r == [Idle EXCEPT !.op = "removeAccount", !.user = e] IN
        IF e \in Live(users)
        THEN /\ resp' = [Thrown(0, r, "ok") EXCEPT !.who = e]
             /\ users' = SelectSeq(users, LAMBDA u : u.email # e)
        ELSE /\ resp' = Thrown(0, r, "NotFound")
             /\ UNCHANGED users
    /\ UNCHANGED <<now, ticks, tokens, visits, proc, handed, spent>>

\* signUpUser(dto): a user with this email and the hash of the password;
\* BadRequest, and no user, when the email has one.
SignUpUser(e, pw) ==
    /\ LET r == [Idle EXCEPT !.op = "signUp", !.user = e, !.pw = pw] IN
        IF EmailTaken(users, e)
        THEN /\ resp' = Thrown(0, r, "BadRequest")
             /\ UNCHANGED users
        ELSE /\ resp' = [Thrown(0, r, "ok") EXCEPT !.who = e]
             /\ users' = Append(users, [email |-> e, passwordHash |-> Hash(pw)])
    /\ UNCHANGED <<now, ticks, tokens, visits, proc, handed, spent>>

\* updatePassword(email, dto): the user's hash is that of the new password;
\* NotFound when there is no user.
UpdatePassword(e, pw) ==
    /\ LET r == [Idle EXCEPT !.op = "updatePassword", !.user = e, !.pw = pw] IN
        IF e \in Live(users)
        THEN /\ resp' = [Thrown(0, r, "ok") EXCEPT !.who = e]
             /\ users' = [i \in DOMAIN users |->
                            IF users[i].email = e
                            THEN [users[i] EXCEPT !.passwordHash = Hash(pw)]
                            ELSE users[i]]
        ELSE /\ resp' = Thrown(0, r, "NotFound")
             /\ UNCHANGED users
    /\ UNCHANGED <<now, ticks, tokens, visits, proc, handed, spent>>

\* Time passes.
Tick(d) ==
    /\ ticks < MaxTicks
    /\ now + d <= Horizon
    /\ now' = now + d
    /\ ticks' = ticks + 1
    /\ resp' = NoResp
    /\ UNCHANGED <<users, tokens, visits, proc, handed, spent>>

\* The token life cycle: logins and refreshes of the followed account by
\* concurrent handlers, the callers validating the access tokens they have
\* been handed, the account removed and signed up again, and time passing.
Next ==
    \/ \E p \in Procs, u \in Emails : Login(p, u)
    \/ \E p \in Procs : LoginSave(p)
    \/ \E p \in Procs : LoginVisit(p)
    \/ \E p \in Procs, t \in Presentable : Refresh(p, t)
    \/ \E p \in Procs : RefreshRevoke(p)
    \/ \E p \in Procs : RefreshUser(p)
    \/ \E p \in Procs : RefreshSave(p)
    \/ \E p \in Procs : RefreshVisit(p)
    \/ \E h \in handed : ValidateAccessToken(h.access)
    \/ \E e \in Emails : e \in Live(users) /\ RemoveAccount(e)
    \/ \E e \in Emails : e \notin Live(users) /\ SignUpUser(e, FirstPassword)
    \/ \E d \in TickSteps : Tick(d)

Spec == Init /\ [][Next]_vars

\* Credentials: accounts signed up, removed and given new passwords, and
\* validateUser with every email and password.
NextUsers ==
    \/ \E e \in Accounts, pw \in Passwords : SignUpUser(e, pw)
    \/ \E e \in Accounts : RemoveAccount(e)
    \/ \E e \in Accounts, pw \in Passwords : UpdatePassword(e, pw)
    \/ \E e \in Accounts \cup {"wrong@example.com"}, pw \in Passwords :
            ValidateUser(e, pw)

SpecUsers == Init /\ [][NextUsers]_vars

\* Bearer tokens against the clock: the clock advances by a millisecond, by
\* the access token's lifetime, and by a millisecond less.
JwtTickSteps == {1, AccessTtlSec * 1000 - 1, AccessTtlSec * 1000}

NextJwt ==
    \/ \E t \in Bearers : ValidateAccessToken(t)
    \/ \E d \in JwtTickSteps : Tick(d)

SpecJwt == Init /\ [][NextJwt]_vars
\* ------------------------------------------------------------------ claims
\* The response is that of a refreshToken call, of a login.
IsRefresh == resp.call.op = "refresh"
IsLogin == resp.call.op = "login"

\* The rows that hold token string t.
Rows(t) == {i \in 1..Len(tokens) : tokens[i].token = t}

\* C1: once a refreshToken call has succeeded with a token string, no later
\* call that presents the same string succeeds (each such call fails).
C1_SingleUse == (IsRefresh /\ resp.call.late) => resp.status # "ok"

\* C2: of the refreshToken calls that present the same token string and
\* overlap, at most one returns a token pair: a call that began before any
\* call had succeeded with its string does not return a pair once another
\* call has.
C2_AtMostOneConcurrent ==
    (IsRefresh /\ resp.status = "ok" /\ ~resp.call.late) => ~resp.again

\* C3: a refreshToken call succeeds only with a token string whose row, at
\* the call's check, exists, is not revoked and has not expired.
C3_AcceptedOnlyIfUsable ==
    (IsRefresh /\ resp.status = "ok") =>
        (resp.call.known /\ ~resp.call.wasRevoked /\ ~resp.call.wasExpired)
\* C4: validateUser(email, password) returns the stored user with that email
\* exactly when the lookup finds one and the password matches its stored
\* hash; for an unknown email, a failed lookup or another password it fails
\* with Unauthorized.
C4_ValidateUser ==
    resp.call.op = "validateUser" =>
        IF /\ resp.call.user \in Live(users)
           /\ "StoreError" \notin resp.call.faults
           /\ HashOf(users, resp.call.user) = Hash(resp.call.pw)
        THEN resp.status = "ok" /\ resp.who = resp.call.user
        ELSE resp.status = "Unauthorized" /\ resp.who = ""

\* C4's case: an account signed up later is validated with its password.
C4_Witness ==
    /\ resp.call.op = "validateUser"
    /\ resp.status = "ok"
    /\ resp.call.user = "b@x.com"
    /\ resp.call.pw = "other"

\* C5, as stated: a refreshToken call with a token string that has no row
\* (never issued, or missing) or whose row has expired fails with
\* Unauthorized and changes neither the table nor the visitor counts.
C5_BadTokenUnauthorized ==
    [][(resp'.call.op = "refresh" /\ (~resp'.call.known \/ resp'.call.wasExpired))
        => /\ resp'.status = "Unauthorized"
           /\ tokens' = tokens
           /\ visits' = visits]_vars

\* C5, amended: such a call changes neither the table nor the visitor
\* counts, and fails with Unauthorized unless the lookup of the token itself
\* fails, which gives InternalError.
C5_BadTokenRejected ==
    [][(resp'.call.op = "refresh" /\ (~resp'.call.known \/ resp'.call.wasExpired))
        => /\ resp'.status = IF "findError" \in resp'.call.faults
                             THEN "InternalError" ELSE "Unauthorized"
           /\ tokens' = tokens
           /\ visits' = visits]_vars

\* C5's case: a token that was handed out is presented after its row expired.
C5_Witness ==
    /\ IsRefresh
    /\ resp.call.known
    /\ resp.call.wasExpired
    /\ resp.status = "Unauthorized"

\* C6: a login that succeeds has inserted exactly one row; the row holds the
\* returned refresh token, is owned by the user's email, is not revoked and
\* expires exactly 7 days after the token was issued; the returned access
\* token expires exactly 15 minutes after it was issued.
C6_LoginIssues ==
    (IsLogin /\ resp.status = "ok") =>
        /\ resp.call.ins = 1
        /\ Cardinality(Rows(resp.refresh)) = 1
        /\ \A i \in Rows(resp.refresh) :
            /\ tokens[i].userEmail = resp.call.user
            /\ ~tokens[i].revoked
            /\ tokens[i].expiresAt = resp.call.rtAt + 7 * 24 * 60 * 60 * 1000
        /\ resp.access.iat = resp.at \div 1000
        /\ resp.access.exp = resp.access.iat + 15 * 60

\* C6's case: a login succeeds after time has passed.
C6_Witness == IsLogin /\ resp.status = "ok" /\ resp.call.rtAt > 0

\* C7: a login whose re-fetch of the user by id fails or finds nothing fails
\* with InternalError, and has saved no row, counted no visit and returned
\* no token.
C7_LoginRefetchFails ==
    [][(resp'.call.op = "login" /\ resp'.call.faults \cap {"StoreError", "nothing"} # {})
        => /\ resp'.status = "InternalError"
           /\ tokens' = tokens
           /\ visits' = visits
           /\ resp'.call.ins = 0
           /\ resp'.call.vis = 0
           /\ resp'.access = NoToken
           /\ resp'.refresh = NoToken]_vars

\* C7's case: a login for a user whose account was removed.
C7_Witness ==
    /\ IsLogin
    /\ "nothing" \in resp.call.faults
    /\ resp.status = "InternalError"

\* C8: a refreshToken call ends as success, Unauthorized or InternalError;
\* a call in which a collaborator failed (a store read or write, the lookup
\* of the owning user, the visitor counter) ends as InternalError.
C8_RefreshOutcomes ==
    IsRefresh =>
        /\ resp.status \in {"ok", "Unauthorized", "InternalError"}
        /\ resp.call.faults # {} => resp.status = "InternalError"

\* C8's case: the owning user of a presented token is gone.
C8_Witness ==
    /\ IsRefresh
    /\ "NotFound" \in resp.call.faults
    /\ resp.status = "InternalError"

C10_InsertOrRevokeOnly ==
    [][/\ Len(tokens') >= Len(tokens)
       /\ \A i \in 1..Len(tokens) :
            \/ tokens'[i] = tokens[i]
            \/ tokens'[i] = [tokens[i] EXCEPT !.revoked = TRUE]]_vars

\* C10's case: a refresh has revoked one row and inserted another.
C10_Witness ==
    \E i, j \in 1..Len(tokens) : tokens[i].revoked /\ ~tokens[j].revoked

\* C11: no two rows of the refresh_token table hold the same token string,
\* also when two calls sign for the same user within the same second: the
\* second save is refused.
C11_UniqueTokens ==
    \A i, j \in 1..Len(tokens) : tokens[i].token = tokens[j].token => i = j

\* C11's case: a login signed the string that a row already holds (a login
\* or refresh of the same user in the same second), and its save was refused.
C11_Witness ==
    /\ IsLogin
    /\ "duplicate" \in resp.call.faults
    /\ Rows(resp.call.newTok) # {}
    /\ resp.status = "StoreError"

\* C12: a login or refreshToken call whose upsertVisitorCount fails still
\* succeeds and returns its tokens.
C12_VisitorFireAndForget ==
    (resp.call.op \in {"login", "refresh"} /\ "visitorError" \in resp.call.faults)
        => /\ resp.status = "ok"
           /\ resp.access # NoToken
           /\ resp.refresh # NoToken

\* What the caller of an operation sees of its response.
Observable(r) ==
    [status |-> r.status, msg |-> r.msg, who |-> r.who, access |-> r.access,
     refresh |-> r.refresh, valid |-> r.valid]

\* C13: every validateUser call that does not find a user with a matching
\* password (the email has no user, the password does not match, the lookup
\* fails with not-found or with another error) gives the caller one and the
\* same response, Unauthorized with the message 'Invalid credentials': two
\* such runs cannot be told apart by their outcome.
C13_NoEnumeration ==
    (resp.call.op = "validateUser" /\ resp.status # "ok") =>
        Observable(resp) =
            [status |-> "Unauthorized", msg |-> "Invalid credentials",
             who |-> "", access |-> NoToken, refresh |-> NoToken,
             valid |-> FALSE]

\* C13's case: a registered email is tried with a password that does not
\* match, and the lookup has not failed.
C13_Witness ==
    /\ resp.call.op = "validateUser"
    /\ resp.call.user \in Live(users)
    /\ resp.call.faults = {}
    /\ resp.status = "Unauthorized"

\* The validated token was signed with the configured secret and a ttl > 0.
IssuedHere ==
    /\ resp.call.op = "validate"
    /\ resp.call.tok.fmt = "jwt"
    /\ resp.call.tok.key = Secret
    /\ resp.call.tok.exp > resp.call.tok.iat

C18_RevokeBeforeIssue ==
    /\ \A p \in Procs :
        (proc[p].op = "refresh" /\ proc[p].ins > 0) =>
            \A i \in 1..Len(tokens) :
                tokens[i].id = proc[p].stored.id => tokens[i].revoked
    /\ (IsRefresh /\ resp.status = "ok") =>
        /\ resp.call.rev = {resp.call.stored.id}
        /\ resp.call.ins = 1
        /\ Rows(resp.call.tok) # {}
        /\ \A i \in Rows(resp.call.tok) : tokens[i].revoked
        /\ Rows(resp.refresh) # {}

\* C18's case: a refreshToken call has saved its new row and has not yet
\* returned.
C18_Witness ==
    \E p \in Procs :
        /\ proc[p].pc = "r_visit"
        /\ proc[p].ins = 1
        /\ Rows(proc[p].newTok) # {}

SessionRevoked ==
    /\ resp.call.op = "validate"
    /\ \E h \in handed :
        /\ h.access = resp.call.tok
        /\ \E i \in Rows(h.refresh) : tokens[i].revoked

\* C20: an access token whose refresh token has been revoked (by a refresh
\* that presented it) is still found valid by validateAccessToken, at every
\* time before the access token's own expiry, 15 minutes after its issue, and
\* not from then on.
C20_AccessOutlivesRevocation ==
    SessionRevoked =>
        /\ resp.status = "ok"
        /\ resp.call.tok.exp = resp.call.tok.iat + 15 * 60
        /\ resp.valid <=> resp.at < resp.call.tok.exp * 1000

\* C20's case: an access token is found valid after the refresh token it
\* was handed out with has been revoked.
C20_Witness == SessionRevoked /\ resp.valid /\ resp.at > 0

\* The step ends a refreshToken call in failure after the call has revoked
\* the row of the token it was presented with.
FailedAfterRevoke ==
    /\ resp'.call.op = "refresh"
    /\ resp'.call.rev # {}
    /\ resp'.status # "ok"

\* The step ends, in success, a refreshToken call that was presented with a
\* token whose row had been revoked by calls that all failed: no call has
\* succeeded with the token, and none is under way with it.
ReusedAfterFailure ==
    /\ resp'.call.op = "refresh"
    /\ resp'.status = "ok"
    /\ resp'.call.wasRevoked
    /\ ~resp'.call.late
    /\ ~resp'.again
    /\ \A q \in Procs : proc'[q].tok # resp'.call.tok

ContinuesChain ==
    /\ IsRefresh
    /\ resp.call.known
    /\ ~resp.call.wasRevoked
    /\ ~resp.call.wasExpired
    /\ ~resp.call.late
    /\ ~resp.again

\* The refresh token of a successful response is the string of exactly one
\* row, which is not revoked.
ReturnedTokenStored ==
    (resp.call.op \in {"login", "refresh"} /\ resp.status = "ok") =>
        /\ Cardinality(Rows(resp.refresh)) = 1
        /\ \A i \in Rows(resp.refresh) : ~tokens[i].revoked

OnlyPresentedRowChanges ==
    \A i \in 1..Len(tokens) :
        tokens'[i] # tokens[i] =>
            \E p \in Procs :
                /\ proc[p].pc = "r_revoke"
                /\ proc'[p].pc = "r_user"
                /\ proc[p].stored.id = tokens[i].id
                /\ proc[p].tok = tokens[i].token

====
